---- MODULE Spec2Model ----
(***************************************************************************)
(* hs_core resource API (hydroshare/resource.py) and the BagIt packaging   *)
(* routine (hydroshare/hs_bagit.py) as a state machine.                    *)
(*                                                                         *)
(* State: the resource table with its access-control lists and metadata,   *)
(* the ResourceFile records of every resource (in primary-key order, the   *)
(* order the querysets iterate in), the names held by the media storage,   *)
(* the Bags records of every resource, the filesystem below                *)
(* BAGIT_TEMP_LOCATION, and the position of every create_bag call.         *)
(***************************************************************************)
EXTENDS Integers, Sequences, FiniteSets, TLC

VARIABLES res, files, storage, bags, fs, call, now, last, bagCalls

vars == <<res, files, storage, bags, fs, call, now, last, bagCalls>>

(***************************************************************************)
(* Bounds of the model.                                                    *)
(***************************************************************************)
MaxResources == 2
MaxStored == 2
MaxClock == 2
MaxBags == 2

Resources == 1..MaxResources
Users == {"u1", "u2"}
Groups == {"g1", "g2"}
BaseNames == {"a", "b"}
Contents == {"x", "y"}
Calls == {1, 2}

\* An uploaded file: the name it is uploaded under and its bytes.
Uploads == [name : BaseNames, content : Contents]

(***************************************************************************)
(* Helpers on sequences.                                                   *)
(***************************************************************************)
RemoveAt(s, i) == SubSeq(s, 1, i - 1) \o SubSeq(s, i + 1, Len(s))

Matches(fl, filename) == {i \in DOMAIN fl : fl[i].name = filename}

Min(S) == CHOOSE m \in S : \A n \in S : m <= n

(***************************************************************************)
(* The media storage: a saved file gets the first free name among          *)
(* name, name_1, name_2, ... (FileField saves through the storage's        *)
(* get_available_name).                                                    *)
(***************************************************************************)
Candidate(name, k) == IF k = 0 THEN name ELSE name \o "_" \o ToString(k)

\* The model stops storing once the storage holds MaxStored names.
CanStore(st, name) == Cardinality(st) < MaxStored

AvailableName(st, name) ==
    Candidate(name, Min({k \in 0..Cardinality(st) : Candidate(name, k) \notin st}))

\* ResourceFile.objects.create for each file of `ups`, in order:
\* returns the new records and the storage's names afterwards.
RECURSIVE StoreAll(_, _)
StoreAll(st, ups) ==
    IF ups = <<>> THEN [recs |-> <<>>, st |-> st]
    ELSE LET n == AvailableName(st, Head(ups).name)
             rest == StoreAll(st \cup {n}, Tail(ups))
         IN [recs |-> <<[name |-> n, content |-> Head(ups).content]>> \o rest.recs,
             st |-> rest.st]

RECURSIVE CanStoreAll(_, _)
CanStoreAll(st, ups) ==
    IF ups = <<>> THEN TRUE
    ELSE /\ CanStore(st, Head(ups).name)
         /\ CanStoreAll(st \cup {AvailableName(st, Head(ups).name)}, Tail(ups))

(***************************************************************************)
(* Resource records.                                                       *)
(***************************************************************************)
NoResource ==
    [live |-> FALSE, owners |-> {}, edit_users |-> {}, view_users |-> {},
     edit_groups |-> {}, view_groups |-> {}, dublin |-> {},
     updated |-> 0, published_and_frozen |-> FALSE, frozen |-> FALSE]

Live == {r \in Resources : res[r].live}

Idle == [pc |-> "idle", pk |-> 0, updated |-> 0, i |-> 0, created |-> {}]

RECURSIVE SumLen(_, _)
SumLen(f, S) ==
    IF S = {} THEN 0
    ELSE LET x == CHOOSE y \in S : TRUE IN Len(f[x]) + SumLen(f, S \ {x})

\* The model stops bagging once MaxBags Bags records exist.
BagCount == SumLen(bags, Resources)

Quiescent == \A c \in Calls : call[c].pc = "idle"

Result(op, pk, outcome) ==
    [op |-> op, pk |-> pk, outcome |-> outcome]

Init ==
    /\ res = [r \in Resources |-> NoResource]
    /\ files = [r \in Resources |-> <<>>]
    /\ storage = {}
    /\ bags = [r \in Resources |-> <<>>]
    /\ fs = {}
    /\ call = [c \in Calls |-> Idle]
    /\ now = 0
    /\ last = Result("init", 0, "ok")
    /\ bagCalls = [r \in Resources |-> 0]

(***************************************************************************)
(* create_resource                                                         *)
(***************************************************************************)
ResourceTypes == {"GenericResource"}

\* Mutant of CreateAcl: a view_users list that is passed replaces the
\* list instead of being added to it.
CreateAcl_ViewOverwrite(owner, edit_users, view_users, edit_groups, view_groups) ==
    [owners |-> {owner}, edit_users |-> {owner} \cup edit_users,
     view_users |-> IF view_users # {} THEN view_users
                    ELSE {owner} \cup edit_users,
     edit_groups |-> edit_groups, view_groups |-> edit_groups \cup view_groups]

\* The access lists create_resource leaves on the new resource:
\* the owner is added to all three user lists first, then the lists
\* passed in are added on top (an empty or absent list adds nothing).
CreateAcl(owner, edit_users, view_users, edit_groups, view_groups) ==
    LET vu0 == {owner}
        eu0 == {owner}
        ow0 == {owner}
        eu1 == eu0 \cup edit_users
        vu1 == vu0 \cup edit_users
        vu2 == vu1 \cup view_users
        eg1 == edit_groups
        vg1 == edit_groups
        vg2 == vg1 \cup view_groups
    IN [owners |-> ow0, edit_users |-> eu1, view_users |-> vu2,
        edit_groups |-> eg1, view_groups |-> vg2]

CreateResource(resource_type, owner, edit_users, view_users, edit_groups, view_groups, dublin_metadata, ups) ==
    /\ Resources \ Live # {}
    /\ now < MaxClock
    /\ CanStoreAll(storage, ups)
    /\ IF resource_type \notin ResourceTypes
       THEN /\ last' = Result("create_resource", 0, "raised")
            /\ UNCHANGED <<res, files, storage, now>>
       ELSE LET pk == Min(Resources \ Live)
                acl == CreateAcl(owner, edit_users, view_users,
                                 edit_groups, view_groups)
                st == StoreAll(storage, ups)
            IN /\ res' = [res EXCEPT ![pk] =
                     [live |-> TRUE,
                      owners |-> acl.owners,
                      edit_users |-> acl.edit_users,
                      view_users |-> acl.view_users,
                      edit_groups |-> acl.edit_groups,
                      view_groups |-> acl.view_groups,
                      dublin |-> dublin_metadata,
                      updated |-> now + 1,
                      published_and_frozen |-> FALSE,
                      frozen |-> FALSE]]
               /\ files' = [files EXCEPT ![pk] = st.recs]
               /\ storage' = st.st
               /\ now' = now + 1
               /\ last' = Result("create_resource", pk, "ok")
    /\ UNCHANGED <<bags, fs, call, bagCalls>>

(***************************************************************************)
(* update_resource                                                         *)
(***************************************************************************)
NoUser == "nobody"

\* The access lists of resource record `r` after update_resource's
\* owner / edit_users / view_users / edit_groups / view_groups blocks.
UpdateAcl(r, owner, edit_users, view_users, edit_groups, view_groups) ==
    LET vu0 == IF owner # NoUser THEN r.view_users \cup {owner} ELSE r.view_users
        eu0 == IF owner # NoUser THEN r.edit_users \cup {owner} ELSE r.edit_users
        ow0 == IF owner # NoUser THEN r.owners \cup {owner} ELSE r.owners
        \* if edit_users: clear edit_users, add each to edit_users and view_users
        eu1 == IF edit_users # {} THEN edit_users ELSE eu0
        vu1 == IF edit_users # {} THEN vu0 \cup edit_users ELSE vu0
        \* if view_users: clear view_users, add each
        vu2 == IF view_users # {} THEN view_users ELSE vu1
        \* if edit_groups: clear edit_groups, add each to edit_groups and view_groups
        eg1 == IF edit_groups # {} THEN edit_groups ELSE r.edit_groups
        vg1 == IF edit_groups # {} THEN r.view_groups \cup edit_groups
                                  ELSE r.view_groups
        \* if view_groups: clear edit_groups (sic), add each to view_groups
        eg2 == IF view_groups # {} THEN {} ELSE eg1
        vg2 == IF view_groups # {} THEN vg1 \cup view_groups ELSE vg1
    IN [r EXCEPT !.owners = ow0, !.edit_users = eu1, !.view_users = vu2,
                 !.edit_groups = eg2, !.view_groups = vg2]

UpdateResource(pk, owner, edit_users, view_users, edit_groups, view_groups, dublin_metadata, ups) ==
    /\ pk \in Live
    /\ CanStoreAll(storage, ups)
    /\ LET st == StoreAll(storage, ups)
           acl == UpdateAcl(res[pk], owner, edit_users, view_users,
                            edit_groups, view_groups)
       IN /\ files' = IF ups # <<>> THEN [files EXCEPT ![pk] = st.recs] ELSE files
          /\ storage' = st.st
          /\ res' = [res EXCEPT ![pk] =
                [acl EXCEPT !.dublin = IF dublin_metadata # {}
                                       THEN dublin_metadata ELSE acl.dublin]]
    /\ last' = Result("update_resource", pk, "ok")
    /\ UNCHANGED <<bags, fs, call, now, bagCalls>>

(***************************************************************************)
(* add_resource_files                                                      *)
(***************************************************************************)
AddResourceFiles(pk, ups) ==
    /\ pk \in Live
    /\ CanStoreAll(storage, ups)
    /\ LET st == StoreAll(storage, ups)
       IN /\ files' = [files EXCEPT ![pk] = files[pk] \o st.recs]
          /\ storage' = st.st
    /\ last' = Result("add_resource_files", pk, "ok")
    /\ UNCHANGED <<res, bags, fs, call, now, bagCalls>>

(***************************************************************************)
(* update_science_metadata (update_system_metadata delegates to it)        *)
(***************************************************************************)
UpdateScienceMetadata(pk, dublin_metadata) ==
    /\ pk \in Live
    /\ res' = [res EXCEPT ![pk].dublin =
                  IF dublin_metadata # {} THEN dublin_metadata ELSE @]
    /\ last' = Result("update_science_metadata", pk, "ok")
    /\ UNCHANGED <<files, storage, bags, fs, call, now, bagCalls>>

(***************************************************************************)
(* publish_resource                                                        *)
(***************************************************************************)
PublishResource(pk) ==
    /\ pk \in Live
    /\ now < MaxClock
    /\ res' = [res EXCEPT ![pk].published_and_frozen = TRUE,
                          ![pk].frozen = TRUE,
                          ![pk].edit_users = {},
                          ![pk].edit_groups = {},
                          ![pk].updated = now + 1]
    /\ now' = now + 1
    /\ last' = Result("publish_resource", pk, "ok")
    /\ UNCHANGED <<files, storage, bags, fs, call, bagCalls>>

(***************************************************************************)
(* get_resource_file / update_resource_file / delete_resource_file         *)
(***************************************************************************)
\* get_resource_file: the first record named filename, or not found.
GetResourceFile(fl, filename) ==
    IF Matches(fl, filename) # {}
    THEN [outcome |-> "ok", name |-> filename]
    ELSE [outcome |-> "ObjectDoesNotExist", name |-> ""]

GetResourceFileCall(pk, filename) ==
    /\ pk \in Live
    /\ last' = Result("get_resource_file", pk, GetResourceFile(files[pk], filename).outcome)
    /\ UNCHANGED <<res, files, storage, bags, fs, call, now, bagCalls>>

\* update_resource_file's loop: `return rf` sits in the loop body after the
\* `if`, so the loop ends in its first iteration whether or not the first
\* record matched; the for-else raises only when there is no record at all.
\* `saved` is the name the storage gives the replacing file.
UpdateFileLoop(fl, filename, content, saved) ==
    IF fl = <<>>
    THEN [recs |-> fl, outcome |-> "ObjectDoesNotExist", stored |-> FALSE]
    ELSE IF fl[1].name = filename
         THEN [recs |-> [fl EXCEPT ![1] = [name |-> saved, content |-> content]],
               outcome |-> "ok", stored |-> TRUE]
         ELSE [recs |-> fl, outcome |-> "ok", stored |-> FALSE]

UpdateResourceFile(pk, filename, f) ==
    /\ pk \in Live
    /\ LET saved == AvailableName(storage, f.name)
           r == UpdateFileLoop(files[pk], filename, f.content, saved)
       IN /\ r.stored => CanStore(storage, f.name)
          /\ files' = [files EXCEPT ![pk] = r.recs]
          /\ storage' = IF r.stored THEN storage \cup {saved} ELSE storage
          /\ last' = Result("update_resource_file", pk, r.outcome)
    /\ UNCHANGED <<res, bags, fs, call, now, bagCalls>>

\* Mutant of DeleteFileLoop: the for-else is missing, so a name that
\* matches nothing returns normally.
DeleteFileLoop_NoRaise(fl, filename) ==
    IF Matches(fl, filename) = {}
    THEN [recs |-> fl, outcome |-> "ok", removed |-> {}]
    ELSE LET i == Min(Matches(fl, filename))
         IN [recs |-> RemoveAt(fl, i), outcome |-> "ok",
             removed |-> {fl[i].name}]

\* Mutant of DeleteFileLoop: the stored file of the matching record is
\* deleted, but the record removed is the first of the resource.
DeleteFileLoop_First(fl, filename) ==
    IF Matches(fl, filename) = {}
    THEN [recs |-> fl, outcome |-> "ObjectDoesNotExist", removed |-> {}]
    ELSE LET i == Min(Matches(fl, filename))
         IN [recs |-> RemoveAt(fl, 1), outcome |-> "ok",
             removed |-> {fl[i].name}]

\* delete_resource_file's loop: the first record named filename is removed
\* together with its stored file; the for-else raises when none matched.
DeleteFileLoop(fl, filename) ==
    IF Matches(fl, filename) = {}
    THEN [recs |-> fl, outcome |-> "ObjectDoesNotExist", removed |-> {}]
    ELSE LET i == Min(Matches(fl, filename))
         IN [recs |-> RemoveAt(fl, i), outcome |-> "ok",
             removed |-> {fl[i].name}]

DeleteResourceFile(pk, filename) ==
    /\ pk \in Live
    /\ LET r == DeleteFileLoop(files[pk], filename)
       IN /\ files' = [files EXCEPT ![pk] = r.recs]
          /\ storage' = storage \ r.removed
          /\ last' = Result("delete_resource_file", pk, r.outcome)
    /\ UNCHANGED <<res, bags, fs, call, now, bagCalls>>

(***************************************************************************)
(* The filesystem below BAGIT_TEMP_LOCATION (dest_prefix).  A path is the  *)
(* sequence of its components below dest_prefix; <<>> is dest_prefix.      *)
(* An entry is a directory ("d") or a regular file ("f"); a zip file       *)
(* carries the set of archive names written into it.                       *)
(***************************************************************************)
TicksPerSecond == 2

Paths(fsys) == {e.path : e \in fsys}

Dirs(fsys) == {e.path : e \in {x \in fsys : x.kind = "d"}}

IsUnder(p, d) == Len(p) >= Len(d) /\ SubSeq(p, 1, Len(d)) = d

Ancestors(d) == {SubSeq(d, 1, k) : k \in 0..Len(d)}

Dir(p) == [path |-> p, kind |-> "d", zip |-> {}]

RegularFile(p) == [path |-> p, kind |-> "f", zip |-> {}]

\* shutil.rmtree(d): d and everything below it is gone.
RmTree(fsys, d) == {e \in fsys : ~IsUnder(e.path, d)}

\* os.makedirs(d) on a filesystem where d does not exist: d and its
\* missing ancestors are created.
MakeDirs(fsys, d) == fsys \cup {Dir(p) : p \in Ancestors(d) \ Paths(fsys)}

\* One round of create_bag's directory loop:
\*   try: os.makedirs(d)  except: shutil.rmtree(d); os.makedirs(d)
SetupDir(fsys, d) ==
    IF d \in Paths(fsys) THEN MakeDirs(RmTree(fsys, d), d) ELSE MakeDirs(fsys, d)

\* A file written at path p, replacing what was there.
WriteFile(fsys, e) == {x \in fsys : x.path # e.path} \cup {e}

ShortId(pk) == "r" \o ToString(pk)

\* arrow.get(updated).format("YYYY.MM.DD.HH.mm.ss"): whole seconds only.
Format(t) == "t" \o ToString(t \div TicksPerSecond)

BagitPath(c) == <<ShortId(call[c].pk), Format(call[c].updated)>>

VisualizationPath(c) == BagitPath(c) \o <<"visualization">>

ContentsPath(c) == BagitPath(c) \o <<"contents">>

ZipPath(c) == <<ShortId(call[c].pk) \o ".zip">>

SetupDirs(c) == <<<<>>, BagitPath(c), VisualizationPath(c), ContentsPath(c)>>

\* Mutant of CopyAll: the loop ends after its first file.
CopyAll_FirstOnly(fsys, st, fl, dst) ==
    IF fl = <<>> THEN [fs |-> fsys, ok |-> TRUE]
    ELSE IF Head(fl).name \notin st \/ dst \notin Dirs(fsys)
         THEN [fs |-> fsys, ok |-> FALSE]
    ELSE [fs |-> WriteFile(fsys, RegularFile(dst \o <<Head(fl).name>>)),
          ok |-> TRUE]

\* shutil.copy2(src, dst) for every record of fl, in order: into dst when
\* dst is a directory, onto the path dst when only its parent exists,
\* and an IOError otherwise or when the stored file is missing.
RECURSIVE CopyAll(_, _, _, _)
CopyAll(fsys, st, fl, dst) ==
    IF fl = <<>> THEN [fs |-> fsys, ok |-> TRUE]
    ELSE IF Head(fl).name \notin st THEN [fs |-> fsys, ok |-> FALSE]
    ELSE IF dst \in Dirs(fsys)
         THEN CopyAll(WriteFile(fsys, RegularFile(dst \o <<Head(fl).name>>)),
                      st, Tail(fl), dst)
    ELSE IF SubSeq(dst, 1, Len(dst) - 1) \in Dirs(fsys) /\ dst \notin Dirs(fsys)
         THEN CopyAll(WriteFile(fsys, RegularFile(dst)), st, Tail(fl), dst)
    ELSE [fs |-> fsys, ok |-> FALSE]

\* bagit.make_bag(bag_dir): the payload moves below bag_dir/data and the
\* tag files are written next to it.
MakeBag(fsys, bag) ==
    LET payload == {e \in fsys : IsUnder(e.path, bag) /\ e.path # bag}
        moved == {[e EXCEPT !.path = bag \o <<"data">>
                                     \o SubSeq(e.path, Len(bag) + 1, Len(e.path))]
                  : e \in payload}
    IN (fsys \ payload) \cup moved \cup
       {Dir(bag \o <<"data">>), RegularFile(bag \o <<"bagit.txt">>),
        RegularFile(bag \o <<"bag-info.txt">>),
        RegularFile(bag \o <<"manifest-md5.txt">>)}

\* make_zipfile: the archive names are the paths of source_dir and of all
\* directories and regular files below it, relative to source_dir's parent.
ZipEntries(fsys, source_dir) ==
    {SubSeq(p, Len(source_dir), Len(p)) :
        p \in {q \in Paths(fsys) : IsUnder(q, source_dir)}}

MakeZipfile(fsys, output_filename, source_dir) ==
    WriteFile(fsys, [path |-> output_filename, kind |-> "f",
                     zip |-> ZipEntries(fsys, source_dir)])

(***************************************************************************)
(* create_bag, one action per statement group; call[c].pc is the call's    *)
(* position.  A statement that raises ends the call where it stands.       *)
(***************************************************************************)
Running(c) == Result("create_bag", call[c].pk, "running")

Raise(c) ==
    /\ call' = [call EXCEPT ![c] = Idle]
    /\ last' = Result("create_bag", call[c].pk, "raised")

Goto(c, pc, fsys) ==
    /\ call' = [call EXCEPT ![c].pc = pc,
                            ![c].created = (@ \cup (Paths(fsys) \ Paths(fs)))]
    /\ last' = Running(c)

CreateBagStart(c, pk) ==
    /\ call[c].pc = "idle"
    /\ pk \in Live
    /\ BagCount < MaxBags
    /\ call' = [call EXCEPT ![c] = [pc |-> "mkdirs", pk |-> pk,
                                    updated |-> res[pk].updated,
                                    i |-> 1, created |-> {}]]
    /\ last' = Result("create_bag", pk, "running")
    /\ UNCHANGED <<res, files, storage, bags, fs, now, bagCalls>>

CreateBagMkdir(c) ==
    /\ call[c].pc = "mkdirs"
    /\ LET d == SetupDirs(c)[call[c].i]
           fsys == SetupDir(fs, d)
       IN /\ fs' = fsys
          /\ call' = [call EXCEPT
                ![c].pc = IF call[c].i = Len(SetupDirs(c)) THEN "copy" ELSE "mkdirs",
                ![c].i = IF call[c].i = Len(SetupDirs(c)) THEN 0 ELSE @ + 1,
                ![c].created = (@ \cup (Paths(fsys) \ Paths(fs)) \cup {d})]
          /\ last' = Running(c)
    /\ UNCHANGED <<res, files, storage, bags, now, bagCalls>>

CreateBagCopy(c) ==
    /\ call[c].pc = "copy"
    /\ LET r == CopyAll(fs, storage, files[call[c].pk], ContentsPath(c))
       IN /\ fs' = r.fs
          /\ IF r.ok THEN Goto(c, "metadata", r.fs) ELSE Raise(c)
    /\ UNCHANGED <<res, files, storage, bags, now, bagCalls>>

CreateBagMetadata(c) ==
    /\ call[c].pc = "metadata"
    /\ IF BagitPath(c) \in Dirs(fs)
       THEN LET fsys == WriteFile(fs, RegularFile(BagitPath(c)
                                        \o <<"resourcemetadata.json">>))
            IN fs' = fsys /\ Goto(c, "make_bag", fsys)
       ELSE UNCHANGED fs /\ Raise(c)
    /\ UNCHANGED <<res, files, storage, bags, now, bagCalls>>

CreateBagMakeBag(c) ==
    /\ call[c].pc = "make_bag"
    /\ IF BagitPath(c) \in Dirs(fs) /\ res[call[c].pk].owners # {}
       THEN LET fsys == MakeBag(fs, BagitPath(c))
            IN fs' = fsys /\ Goto(c, "zip", fsys)
       ELSE UNCHANGED fs /\ Raise(c)
    /\ UNCHANGED <<res, files, storage, bags, now, bagCalls>>

CreateBagZip(c) ==
    /\ call[c].pc = "zip"
    /\ IF <<>> \in Dirs(fs)
       THEN LET fsys == MakeZipfile(fs, ZipPath(c), BagitPath(c))
            IN fs' = fsys /\ Goto(c, "record", fsys)
       ELSE UNCHANGED fs /\ Raise(c)
    /\ UNCHANGED <<res, files, storage, bags, now, bagCalls>>

\* Mutant of NewBag: the record is stamped with the current time.
NewBag_Now(c, zf) == [timestamp |-> now, entries |-> zf.zip]

\* Bags.objects.create(content_object=resource, bag=File(open(zf)),
\*                     timestamp=resource.updated)
NewBag(c, zf) == [timestamp |-> call[c].updated, entries |-> zf.zip]

CreateBagRecord(c) ==
    /\ call[c].pc = "record"
    /\ IF ZipPath(c) \in Paths(fs)
       THEN LET zf == CHOOSE e \in fs : e.path = ZipPath(c)
            IN /\ bags' = [bags EXCEPT ![call[c].pk] = Append(@, NewBag(c, zf))]
               /\ Goto(c, "unlink", fs)
       ELSE UNCHANGED bags /\ Raise(c)
    /\ UNCHANGED <<res, files, storage, fs, now, bagCalls>>

CreateBagUnlink(c) ==
    /\ call[c].pc = "unlink"
    /\ IF ZipPath(c) \in Paths(fs)
       THEN /\ fs' = {e \in fs : e.path # ZipPath(c)}
            /\ Goto(c, "rmtree", fs)
       ELSE UNCHANGED fs /\ Raise(c)
    /\ UNCHANGED <<res, files, storage, bags, now, bagCalls>>

\* What create_bag removes last, before `return b`.
Cleanup(fsys, c) == RmTree(fsys, BagitPath(c))

CreateBagRmtree(c) ==
    /\ call[c].pc = "rmtree"
    /\ IF BagitPath(c) \in Paths(fs)
       THEN /\ fs' = Cleanup(fs, c)
            /\ call' = [call EXCEPT ![c] = Idle]
            /\ last' = Result("create_bag", call[c].pk, "ok")
            /\ bagCalls' = [bagCalls EXCEPT ![call[c].pk] = @ + 1]
       ELSE UNCHANGED <<fs, bagCalls>> /\ Raise(c)
    /\ UNCHANGED <<res, files, storage, bags, now>>

(***************************************************************************)
(* Specifications.  Requests are served one at a time: a request starts    *)
(* only when no create_bag call is under way.                              *)
(***************************************************************************)
UserLists == SUBSET Users
GroupLists == SUBSET Groups
DublinLists == {{}, {"title"}, {"creator"}}
DefaultOwner == "u1"

\* The files a resource is created with or extended by carry one content;
\* update_resource_file replaces a file by either content.
FreshUploads == {u \in Uploads : u.content = "x"}
FreshUploadLists == {<<>>} \cup {<<u>> : u \in FreshUploads}
                           \cup {<<u, v>> : u \in FreshUploads, v \in FreshUploads}

\* The file names a client asks for: the stored ones and the plain ones.
FileNames == storage \cup BaseNames

CreateBagStep(c) ==
    \/ CreateBagMkdir(c)
    \/ CreateBagCopy(c)
    \/ CreateBagMetadata(c)
    \/ CreateBagMakeBag(c)
    \/ CreateBagZip(c)
    \/ CreateBagRecord(c)
    \/ CreateBagUnlink(c)
    \/ CreateBagRmtree(c)

\* The argument lists update_resource is called with: the user lists, the
\* group lists and the metadata are handled by separate blocks on separate
\* fields, so a call passes one of the three kinds.
UpdateArgs ==
    {[owner |-> o, edit_users |-> eu, view_users |-> vu, edit_groups |-> {},
      view_groups |-> {}, dublin_metadata |-> {}] :
        o \in Users \cup {NoUser}, eu \in UserLists, vu \in UserLists}
    \cup
    {[owner |-> NoUser, edit_users |-> {}, view_users |-> {}, edit_groups |-> eg,
      view_groups |-> vg, dublin_metadata |-> {}] :
        eg \in GroupLists, vg \in GroupLists}
    \cup
    {[owner |-> NoUser, edit_users |-> {}, view_users |-> {}, edit_groups |-> {},
      view_groups |-> {}, dublin_metadata |-> dm] : dm \in DublinLists}

\* SpecAcl: the access lists and metadata of a resource under
\* create_resource, update_resource, update_science_metadata and
\* publish_resource, with every combination of lists passed in.  These
\* operations read and write the lists of resource pk alone, so one
\* resource is followed.
NextAcl ==
    \/ \E t \in ResourceTypes \cup {"Unknown"}, o \in Users,
          eu \in UserLists, vu \in UserLists,
          eg \in GroupLists, vg \in GroupLists, dm \in DublinLists :
          Live = {} /\ CreateResource(t, o, eu, vu, eg, vg, dm, <<>>)
    \/ \E pk \in Resources, a \in UpdateArgs :
          UpdateResource(pk, a.owner, a.edit_users, a.view_users,
                         a.edit_groups, a.view_groups, a.dublin_metadata, <<>>)
    \/ \E pk \in Resources, dm \in DublinLists : UpdateScienceMetadata(pk, dm)
    \/ \E pk \in Resources : PublishResource(pk)

SpecAcl == Init /\ [][NextAcl]_vars

\* SpecFiles: the ResourceFile records of all resources under the file
\* operations, with the access lists left at their defaults.
NextFiles ==
    \/ \E t \in ResourceTypes \cup {"Unknown"}, ups \in FreshUploadLists :
          CreateResource(t, DefaultOwner, {}, {}, {}, {}, {}, ups)
    \/ \E pk \in Resources, u \in FreshUploads :
          UpdateResource(pk, NoUser, {}, {}, {}, {}, {}, <<u>>)
    \/ \E pk \in Resources, u \in FreshUploads : AddResourceFiles(pk, <<u>>)
    \/ \E pk \in Resources, fn \in FileNames : GetResourceFileCall(pk, fn)
    \/ \E pk \in Resources, fn \in FileNames, f \in Uploads :
          UpdateResourceFile(pk, fn, f)
    \/ \E pk \in Resources, fn \in FileNames : DeleteResourceFile(pk, fn)

SpecFiles == Init /\ [][NextFiles]_vars

\* Spec: resources with files are created, changed, published and
\* bagged; a create_bag call runs to its end before the next request.
Next ==
    \/ /\ Quiescent
       /\ \/ \E ups \in FreshUploadLists :
                CreateResource("GenericResource", DefaultOwner,
                               {}, {}, {}, {}, {}, ups)
          \/ \E pk \in Resources, u \in FreshUploads : AddResourceFiles(pk, <<u>>)
          \/ \E pk \in Resources : PublishResource(pk)
          \/ \E pk \in Resources : CreateBagStart(1, pk)
    \/ \E c \in Calls : CreateBagStep(c)

Spec == Init /\ [][Next]_vars

\* SpecConc: create_bag calls for different resources run at the same
\* time (the routine is meant to be deferred to worker tasks), their
\* statement groups interleaving in any order.  Resources are created
\* between calls and their files stay as they are while a call runs.
StagingSteps == {"copy", "metadata", "make_bag", "zip"}

NextConc ==
    \/ /\ Quiescent
       /\ \E ups \in FreshUploadLists :
             CreateResource("GenericResource", DefaultOwner,
                            {}, {}, {}, {}, {}, ups)
    \/ \E c \in Calls, pk \in Resources :
          /\ \A d \in Calls \ {c} : call[d].pc # "idle" => call[d].pk # pk
          /\ CreateBagStart(c, pk)
    \/ \E c \in Calls : CreateBagStep(c)

SpecConc == Init /\ [][NextConc]_vars

(***************************************************************************)
(* Properties.                                                             *)
(***************************************************************************)

\* C1: after create_resource succeeds for a known resource type, the owner
\* passed in is in the new resource's owners, edit_users and view_users,
\* whatever edit_users / view_users / edit_groups / view_groups lists were
\* passed with it.
C1_OwnerInAllLists ==
    [][(last'.op = "create_resource" /\ last'.outcome = "ok"
        /\ last'.pk \notin Live)
       => \A t \in ResourceTypes, o \in Users, eu \in UserLists,
             vu \in UserLists, eg \in GroupLists, vg \in GroupLists,
             dm \in DublinLists :
             CreateResource(t, o, eu, vu, eg, vg, dm, <<>>)
             => /\ o \in res'[last'.pk].owners
                /\ o \in res'[last'.pk].edit_users
                /\ o \in res'[last'.pk].view_users]_vars

\* A resource was just created for owner u1 with other users and groups
\* in the lists passed.
C1_Witness ==
    /\ last.op = "create_resource" /\ last.outcome = "ok"
    /\ res[last.pk].owners = {"u1"}
    /\ res[last.pk].edit_users = {"u1"}
    /\ res[last.pk].view_users = {"u1", "u2"}
    /\ res[last.pk].view_groups = {"g1"}

\* C2: update_resource_file(pk, filename, f) on a resource that holds a file
\* named filename gives exactly that file the content of f and leaves every
\* other file of that resource and of every other resource unchanged,
\* wherever the named file stands among the resource's files.
C2_UpdatesNamedFile ==
    [][\A pk \in Live, fn \in FileNames, f \in Uploads :
        (UpdateResourceFile(pk, fn, f) /\ Matches(files[pk], fn) # {})
        => /\ Len(files'[pk]) = Len(files[pk])
           /\ \A i \in DOMAIN files[pk] :
                 IF i \in Matches(files[pk], fn)
                 THEN files'[pk][i].content = f.content
                 ELSE files'[pk][i] = files[pk][i]
           /\ \A q \in Resources \ {pk} : files'[q] = files[q]]_vars

\* C3: update_resource_file(pk, filename, f) raises ObjectDoesNotExist and
\* changes no file whenever none of the resource's files is named filename,
\* also when the resource has files with other names.
C3_UpdateMissingRaises ==
    [][\A pk \in Live, fn \in FileNames, f \in Uploads :
        (UpdateResourceFile(pk, fn, f) /\ Matches(files[pk], fn) = {})
        => /\ last'.outcome = "ObjectDoesNotExist"
           /\ files' = files]_vars

\* C4: delete_resource_file(pk, filename) raises ObjectDoesNotExist when no
\* file of the resource is named filename, and then the files of every
\* resource are the same after the call as before it.
C4_DeleteMissingRaises ==
    [][last'.op = "delete_resource_file"
       => \A pk \in Live, fn \in FileNames :
            (DeleteResourceFile(pk, fn) /\ Matches(files[pk], fn) = {})
            => /\ last'.outcome = "ObjectDoesNotExist"
               /\ files' = files
               /\ storage' = storage]_vars

\* delete_resource_file has just raised on a resource that has files.
C4_Witness ==
    /\ last.op = "delete_resource_file"
    /\ last.outcome = "ObjectDoesNotExist"
    /\ files[last.pk] # <<>>

\* C5: when a file named filename exists in the resource,
\* delete_resource_file(pk, filename) returns normally, removes exactly that
\* one record and leaves the other files of the resource and the files of
\* the other resources unchanged; get_resource_file(pk, filename) then
\* raises ObjectDoesNotExist.
C5_DeleteRemovesNamedFile ==
    [][last'.op = "delete_resource_file"
       => \A pk \in Live, fn \in FileNames :
            (DeleteResourceFile(pk, fn) /\ Matches(files[pk], fn) # {})
            => /\ last'.outcome = "ok"
               /\ \E i \in Matches(files[pk], fn) :
                     files'[pk] = RemoveAt(files[pk], i)
               /\ \A q \in Resources \ {pk} : files'[q] = files[q]
               /\ GetResourceFile(files'[pk], fn).outcome
                     = "ObjectDoesNotExist"]_vars

\* delete_resource_file has just removed a file from a resource that keeps
\* another one.
C5_Witness ==
    /\ last.op = "delete_resource_file"
    /\ last.outcome = "ok"
    /\ Len(files[last.pk]) = 1
    /\ Cardinality(storage) = 1

\* C6: for an unpublished resource, update_resource(pk, view_groups=V) with
\* V non-empty overwrites the view-group list: afterwards view_groups is
\* exactly V.
C6_ViewGroupsOverwritten ==
    [][\A pk \in Live, V \in GroupLists \ {{}} :
        (~res[pk].published_and_frozen
         /\ UpdateResource(pk, NoUser, {}, {}, {}, V, {}, <<>>))
        => res'[pk].view_groups = V]_vars

\* C7: once publish_resource(pk) has been applied, no later update_resource,
\* add_resource_files, update_resource_file, delete_resource_file or
\* update_science_metadata call with that pk changes the files or metadata
\* of the published resource.
MutatingOps ==
    {"update_resource", "add_resource_files", "update_resource_file",
     "delete_resource_file", "update_science_metadata"}

C7_PublishedImmutable ==
    [][\A pk \in Live :
        (res[pk].published_and_frozen /\ last'.op \in MutatingOps
         /\ last'.pk = pk)
        => /\ files'[pk] = files[pk]
           /\ res'[pk].dublin = res[pk].dublin]_vars

\* C8: each successful create_bag(resource) adds exactly one Bags record to
\* that resource, with timestamp equal to resource.updated, and no step
\* changes or removes a record added earlier; so after n successful
\* create_bag calls on a resource, get_revisions(pk) holds n records.
C8_OneBagPerCall ==
    [][/\ \A r \in Resources :
            \/ bags'[r] = bags[r]
            \/ /\ Len(bags'[r]) = Len(bags[r]) + 1
               /\ SubSeq(bags'[r], 1, Len(bags[r])) = bags[r]
               /\ bags'[r][Len(bags'[r])].timestamp = res[r].updated
               /\ \E c \in Calls : call[c].pc = "record" /\ call[c].pk = r
       /\ Quiescent' => \A r \in Resources : Len(bags'[r]) = bagCalls'[r]]_vars

\* Two create_bag calls on a resource have returned and it holds two bags.
C8_Witness ==
    /\ last.op = "create_bag" /\ last.outcome = "ok"
    /\ bagCalls[last.pk] = 2
    /\ Len(bags[last.pk]) = 2

\* C9: when create_bag returns, none of the filesystem entries the call
\* created under BAGIT_TEMP_LOCATION remain.
C9_TempStateRemoved ==
    [][\A c \in Calls :
        (call[c].pc = "rmtree" /\ last'.op = "create_bag"
         /\ last'.outcome = "ok")
        => \A p \in call[c].created : p # <<>> => p \notin Paths(fs')]_vars

\* C10: the archive create_bag records holds one content entry per file
\* record of the resource, all distinct, next to the serialized metadata
\* document resourcemetadata.json.
ContentEntries(b) ==
    {e \in b.entries : Len(e) = 4 /\ e[2] = "data" /\ e[3] = "contents"}

C10_ArchiveHoldsEveryFile ==
    [][\A r \in Resources :
        Len(bags'[r]) = Len(bags[r]) + 1
        => LET b == bags'[r][Len(bags'[r])]
               top == Format(res[r].updated)
           IN /\ Cardinality(ContentEntries(b)) = Len(files[r])
              /\ ContentEntries(b) =
                    {<<top, "data", "contents", files[r][i].name>> :
                        i \in DOMAIN files[r]}
              /\ <<top, "data", "resourcemetadata.json">> \in b.entries]_vars

\* A bag was recorded for a resource with two files.
C10_Witness ==
    /\ last.op = "create_bag" /\ last.outcome = "ok"
    /\ Len(files[last.pk]) = 2
    /\ bags[last.pk] # <<>>
    /\ Cardinality(ContentEntries(bags[last.pk][Len(bags[last.pk])])) = 2

\* C11: two create_bag calls for two different resources whose steps
\* interleave both complete successfully, and each records an archive
\* holding its own resource's files: a call ends only by returning, and the
\* directory-setup step of one call leaves the staging tree of a call that
\* is between creating its directories and zipping them as it is.
C11_InterleavedCallsSucceed ==
    [][\A c \in Calls :
        /\ (call[c].pc # "idle" /\ call'[c].pc = "idle")
           => last' = Result("create_bag", call[c].pk, "ok")
        /\ (call[c].pc = "record" /\ call'[c].pc = "unlink")
           => LET r == call[c].pk
                  b == bags'[r][Len(bags'[r])]
              IN ContentEntries(b) =
                    {<<Format(call[c].updated), "data", "contents",
                       files[r][i].name>> : i \in DOMAIN files[r]}
        /\ (call[c].pc = "mkdirs" /\ call'[c] # call[c])
           => \A d \in Calls \ {c} :
                 call[d].pc \in StagingSteps
                 => {e \in fs : IsUnder(e.path, BagitPath(d))} \subseteq fs']_vars

====
